---- MODULE Spec2Model ----
(***************************************************************************)
(* State-machine model of the two seeding scripts of the benchmark:        *)
(*   src/seed/mongo/init.js   (document store, mongosh script)             *)
(*   src/unnamed/part_000     (relational store, T-SQL script for sqlcmd)  *)
(* One behaviour is one run of one script.  Counts and batch sizes are the *)
(* scripts' constants scaled down and drawn from bounded sets; money is in *)
(* cents; a date is its age in days at the time of the run.                *)
(***************************************************************************)
EXTENDS Integers, Sequences, FiniteSets, TLC

VARIABLES backend, cfg, pc, i, j, k, rng, oid, ident,
          Customers, Products, Orders, OrderDetails, bulk, sqlv,
          out, flushes, resolves, error, results, ri

vars == <<backend, cfg, pc, i, j, k, rng, oid, ident,
          Customers, Products, Orders, OrderDetails, bulk, sqlv,
          out, flushes, resolves, error, results, ri>>

\* ------------------------------------------------------------------ bounds
MaxCustomers == 3
MaxProducts == 2
MaxOrders == 2
MaxBatch == 2
MaxArg == 5
\* The progress intervals of the Customers and Products loops (10000 and 200 in
\* both scripts), scaled down with the counts: the Products interval divides the
\* batch sizes as 200 divides 1000.
CustomerProgressEvery == 2
ProductProgressEvery == 1

\* ------------------------------------------------------- program constants
OrderProgressEvery == 50000
WindowDays == 180
TopN == 100
\* the least INT of T-SQL, -2^31
MinInt == -2147483647 - 1
NULL == 0

\* --------------------------------------------------------- random sources
\* Math.random() and NEWID() are pseudo-random streams with an unknown seed.
\* The stream is a full-period generator over 16 states; state s stands for
\* the fraction s/16 in [0,1).
Seeds == 0 .. 15

RngNext(s) == (5 * s + 3) % 16

RECURSIVE RngAt(_, _)
RngAt(s, n) == IF n = 0 THEN s ELSE RngAt(RngNext(s), n - 1)

\* Math.floor(Math.random() * (max - min + 1)) + min, Math.random() = s/16
getRandomInt(min, max, s) == ((s * (max - min + 1)) \div 16) + min

\* parseFloat((Math.random() * 100 + 1).toFixed(2)), in cents
getRandomPrice(s) == s * 625 + 100

\* past + Math.random() * (now - past), past = one year ago: age in days
getRandomDate(s) == ((16 - s) * 365) \div 16

\* [{ $sample: { size: 1 } }]).next(): one document of the collection
Sample(coll, s) == coll[((s * Len(coll)) \div 16) + 1]

\* ------------------------------------------------------------ sequences
RECURSIVE SumSizes(_, _)
SumSizes(log, kind) ==
  IF log = <<>> THEN 0
  ELSE (IF Head(log).kind = kind THEN Head(log).size ELSE 0)
       + SumSizes(Tail(log), kind)

RECURSIVE Pick(_, _, _)
Pick(ops, keep, n) ==
  IF n > Len(ops) THEN <<>>
  ELSE (IF n \in keep THEN <<ops[n]>> ELSE <<>>) \o Pick(ops, keep, n + 1)

Ids(coll) == {coll[x].id : x \in DOMAIN coll}

\* ------------------------------------------------------------- validators
\* $jsonSchema validators and the unique index on Customers.email
ValidCustomer(doc, coll) ==
  /\ doc.email[3] = "@example.com"
  /\ \A x \in DOMAIN coll : coll[x].email # doc.email

ValidProduct(doc) == doc.price >= 0

ValidOrder(doc) ==
  /\ Len(doc.orderDetails) >= 1
  /\ \A x \in DOMAIN doc.orderDetails :
       /\ doc.orderDetails[x].quantity >= 1
       /\ doc.orderDetails[x].unitPrice >= 0

\* bulk.execute() of an unordered bulk operation, good the operations that the
\* validator and the indexes accept: every operation is written, or the call
\* throws after writing any part of the batch.
ExecOutcomes(ops, good) ==
  LET all == 1 .. Len(ops)
  IN  (IF good = all THEN {[ok |-> TRUE, written |-> ops]} ELSE {})
      \cup {[ok |-> FALSE, written |-> Pick(ops, keep, 1)] :
              keep \in (SUBSET good) \ {all}}

\* if (customersBulk.length > 0), and its likes. The script reads a property
\* that its text does not define: the shell's Bulk class does. The bulk
\* operation of the Node driver has a length, the number of operations added to
\* it. The Bulk class of mongosh, the shell that the mongo:7 image runs the
\* script with, defines insert, find, execute, getOperations, toJSON and
\* toString and no length: there the read yields undefined, and undefined > 0
\* is false. cfg.bulkHasLength says which of the two the run is under.
TailFlushNeeded(ops) == cfg.bulkHasLength /\ Len(ops) > 0

\* i % customerBatchSize === 0
BatchFull(n, size) == n % size = 0

\* const customerCount / customerBatchSize and their likes: each phase declares
\* its constants where it starts
Counts(max) == 0 .. max

BatchSizes == 1 .. MaxBatch

NoSqlVars ==
  [randomCustomerID |-> NULL, detailCount |-> NULL, randomProductID |-> NULL,
   unitPrice |-> NULL, quantity |-> NULL, maxOrderID |-> NULL, currentOrder |-> NULL,
   d |-> NULL]

Init ==
  /\ backend \in {"mongo", "sql"}
  /\ cfg \in [bulkHasLength : IF backend = "mongo" THEN BOOLEAN ELSE {FALSE},
              customerCount : Counts(MaxCustomers),
              customerBatchSize : IF backend = "mongo" THEN BatchSizes ELSE {1},
              productCount : {0}, productBatchSize : {1},
              orderCount : {0}, orderBatchSize : {1}]
  /\ pc = "customers"
  /\ i = 1 /\ j = 1 /\ k = 1
  /\ rng \in Seeds
  /\ oid = 0
  /\ ident = [Customers |-> 0, Products |-> 0, Orders |-> 0, OrderDetails |-> 0]
  /\ Customers = <<>> /\ Products = <<>> /\ Orders = <<>> /\ OrderDetails = <<>>
  /\ bulk = <<>>
  /\ sqlv = NoSqlVars
  /\ out = <<>> /\ flushes = <<>> /\ resolves = <<>>
  /\ error = "none"
  /\ results = <<>>
  /\ ri = [min |-> 0, max |-> 0, state |-> "idle", value |-> 0, error |-> "none"]

\* An uncaught exception ends the mongosh script; a lost session ends sqlcmd.
\* A statement-level error of T-SQL ends only its statement.
Halted == error \in {"BulkWriteError", "TypeError", "ConnectionLost"}

At(b, p) == backend = b /\ pc = p /\ ~Halted

\* for (let i = 1; i <= customerCount; i++) and its likes
CustomerLoop == i <= cfg.customerCount

ProductLoop == j <= cfg.productCount

OrderLoop == k <= cfg.orderCount

Flushed(kind, ops, o) == [kind |-> kind, size |-> Len(ops), ok |-> o.ok]

Printed(msg, n, persisted) == [msg |-> msg, n |-> n, persisted |-> persisted]

\* ---------------------------------------------------------------- mongo
\* 3a. one iteration of the Customers loop
SeedCustomer ==
  /\ At("mongo", "customers") /\ CustomerLoop
  /\ LET doc == [id |-> oid + 1, n |-> i,
                 email |-> <<"customer", i, "@example.com">>,
                 createdAge |-> getRandomDate(rng)]
         ops == Append(bulk, doc)
     IN  /\ oid' = oid + 1
         /\ rng' = RngNext(rng)
         /\ IF BatchFull(i, cfg.customerBatchSize)
            THEN \E o \in ExecOutcomes(ops, {x \in DOMAIN ops : ValidCustomer(ops[x], Customers)}) :
                   /\ Customers' = Customers \o o.written
                   /\ flushes' = Append(flushes, Flushed("Customers", ops, o))
                   /\ IF o.ok
                      THEN /\ bulk' = <<>>
                           /\ out' = IF i % CustomerProgressEvery = 0
                                     THEN Append(out, Printed("customersProgress", i,
                                                              Len(Customers')))
                                     ELSE out
                           /\ i' = i + 1
                           /\ UNCHANGED <<pc, error>>
                      ELSE /\ pc' = pc /\ error' = "BulkWriteError"
                           /\ UNCHANGED <<bulk, out, i>>
            ELSE /\ bulk' = ops /\ i' = i + 1
                 /\ UNCHANGED <<Customers, flushes, out, pc, error>>
  /\ UNCHANGED <<backend, cfg, j, k, ident, Products, Orders, OrderDetails,
                 sqlv, resolves, results, ri>>

\* the flush of the last, partial batch of Customers when the test of
\* customersBulk.length lets it happen, then the constants of 3b and a new bulk
\* operation, productsBulk
CustomersTail ==
  /\ At("mongo", "customers") /\ ~CustomerLoop
  /\ IF TailFlushNeeded(bulk)
     THEN \E o \in ExecOutcomes(bulk, {x \in DOMAIN bulk : ValidCustomer(bulk[x], Customers)}) :
            /\ Customers' = Customers \o o.written
            /\ flushes' = Append(flushes, Flushed("Customers", bulk, o))
            /\ IF o.ok
               THEN /\ out' = Append(out, Printed("customersDone", cfg.customerCount,
                                                  Len(Customers')))
                    /\ pc' = "products" /\ bulk' = <<>>
                    /\ \E n \in Counts(MaxProducts), b \in BatchSizes :
                         cfg' = [cfg EXCEPT !.productCount = n, !.productBatchSize = b]
                    /\ UNCHANGED error
               ELSE /\ pc' = pc /\ error' = "BulkWriteError"
                    /\ UNCHANGED <<bulk, out, cfg>>
     ELSE /\ pc' = "products"
          /\ \E n \in Counts(MaxProducts), b \in BatchSizes :
               cfg' = [cfg EXCEPT !.productCount = n, !.productBatchSize = b]
          /\ bulk' = <<>>
          /\ UNCHANGED <<Customers, flushes, out, error>>
  /\ UNCHANGED <<backend, i, j, k, rng, oid, ident, Products, Orders,
                 OrderDetails, sqlv, resolves, results, ri>>

\* 3b. one iteration of the Products loop
SeedProduct ==
  /\ At("mongo", "products") /\ ProductLoop
  /\ LET doc == [id |-> oid + 1, n |-> j, price |-> getRandomPrice(rng),
                 createdAge |-> getRandomDate(RngNext(rng))]
         ops == Append(bulk, doc)
     IN  /\ oid' = oid + 1
         /\ rng' = RngAt(rng, 2)
         /\ IF BatchFull(j, cfg.productBatchSize)
            THEN \E o \in ExecOutcomes(ops, {x \in DOMAIN ops : ValidProduct(ops[x])}) :
                   /\ Products' = Products \o o.written
                   /\ flushes' = Append(flushes, Flushed("Products", ops, o))
                   /\ IF o.ok
                      THEN /\ bulk' = <<>>
                           /\ out' = IF j % ProductProgressEvery = 0
                                     THEN Append(out, Printed("productsProgress", j,
                                                              Len(Products')))
                                     ELSE out
                           /\ j' = j + 1
                           /\ UNCHANGED <<pc, error>>
                      ELSE /\ pc' = pc /\ error' = "BulkWriteError"
                           /\ UNCHANGED <<bulk, out, j>>
            ELSE /\ bulk' = ops /\ j' = j + 1
                 /\ UNCHANGED <<Products, flushes, out, pc, error>>
  /\ UNCHANGED <<backend, cfg, i, k, ident, Customers, Orders, OrderDetails,
                 sqlv, resolves, results, ri>>

\* the flush of the last, partial batch of Products when the test of
\* productsBulk.length lets it happen, then the constants of 3c and ordersBulk
ProductsTail ==
  /\ At("mongo", "products") /\ ~ProductLoop
  /\ IF TailFlushNeeded(bulk)
     THEN \E o \in ExecOutcomes(bulk, {x \in DOMAIN bulk : ValidProduct(bulk[x])}) :
            /\ Products' = Products \o o.written
            /\ flushes' = Append(flushes, Flushed("Products", bulk, o))
            /\ IF o.ok
               THEN /\ out' = Append(out, Printed("productsDone", cfg.productCount,
                                                  Len(Products')))
                    /\ pc' = "orders" /\ bulk' = <<>>
                    /\ \E n \in Counts(MaxOrders), b \in BatchSizes :
                         cfg' = [cfg EXCEPT !.orderCount = n, !.orderBatchSize = b]
                    /\ UNCHANGED error
               ELSE /\ pc' = pc /\ error' = "BulkWriteError"
                    /\ UNCHANGED <<bulk, out, cfg>>
     ELSE /\ pc' = "orders"
          /\ \E n \in Counts(MaxOrders), b \in BatchSizes :
               cfg' = [cfg EXCEPT !.orderCount = n, !.orderBatchSize = b]
          /\ bulk' = <<>>
          /\ UNCHANGED <<Products, flushes, out, error>>
  /\ UNCHANGED <<backend, i, j, k, rng, oid, ident, Customers, Orders,
                 OrderDetails, sqlv, resolves, results, ri>>

Resolved(kind, coll, id, err) ==
  [kind |-> kind, population |-> Len(coll), id |-> id, error |-> err]

\* db.Products.aggregate([{ $sample: { size: 1 } }]).next() and the reads of
\* randomProduct._id and randomProduct.price of one order line
SampledProduct(s) == Sample(Products, s)

\* orderDetails.push({ productId, quantity, unitPrice })
LineOf(randomProduct, quantity) ==
  [productId |-> randomProduct.id, quantity |-> quantity,
   unitPrice |-> randomProduct.price]

\* a faulty variant of BuildDetails: the price is read from a second sample,
\* not from the product whose _id the line keeps
RECURSIVE BuildDetailsResampled(_, _)
BuildDetailsResampled(s, n) ==
  IF n = 0 THEN <<>>
  ELSE <<[LineOf(SampledProduct(s), getRandomInt(1, 10, RngNext(s)))
            EXCEPT !.unitPrice = SampledProduct(RngNext(s)).price]>>
       \o BuildDetailsResampled(RngAt(s, 2), n - 1)

\* the loop over d: line d draws its product, then its quantity
RECURSIVE BuildDetails(_, _)
BuildDetails(s, n) ==
  IF n = 0 THEN <<>>
  ELSE <<LineOf(SampledProduct(s), getRandomInt(1, 10, RngNext(s)))>>
       \o BuildDetails(RngAt(s, 2), n - 1)

RECURSIVE ProductResolves(_, _)
ProductResolves(s, n) ==
  IF n = 0 THEN <<>>
  ELSE <<Resolved("Product", Products, SampledProduct(s).id, "none")>>
       \o ProductResolves(RngAt(s, 2), n - 1)

\* 3c. one iteration of the Orders loop
SeedOrder ==
  /\ At("mongo", "orders") /\ OrderLoop
  /\ LET detailCount == getRandomInt(1, 5, RngAt(rng, 2))
     IN
     IF Customers = <<>>
     THEN \* randomCustomer is null: reading randomCustomer._id throws
          /\ resolves' = Append(resolves, Resolved("Customer", Customers, NULL, "TypeError"))
          /\ pc' = pc /\ error' = "TypeError"
          /\ rng' = RngNext(rng)
          /\ UNCHANGED <<Orders, flushes, out, bulk, k, oid>>
     ELSE IF detailCount > 0 /\ Products = <<>>
     THEN \* randomProduct is null: reading randomProduct._id throws
          /\ resolves' = resolves \o
               <<Resolved("Customer", Customers, Sample(Customers, rng).id, "none"),
                 Resolved("Product", Products, NULL, "TypeError")>>
          /\ pc' = pc /\ error' = "TypeError"
          /\ rng' = RngAt(rng, 4)
          /\ UNCHANGED <<Orders, flushes, out, bulk, k, oid>>
     ELSE LET doc == [id |-> oid + 1,
                      customerId |-> Sample(Customers, rng).id,
                      orderAge |-> getRandomDate(RngNext(rng)),
                      orderDetails |-> BuildDetails(RngAt(rng, 3), detailCount)]
              ops == Append(bulk, doc)
          IN  /\ resolves' = resolves \o
                   <<Resolved("Customer", Customers, doc.customerId, "none")>>
                   \o ProductResolves(RngAt(rng, 3), detailCount)
              /\ oid' = oid + 1
              /\ rng' = RngAt(rng, 3 + 2 * detailCount)
              /\ IF BatchFull(k, cfg.orderBatchSize)
                 THEN \E o \in ExecOutcomes(ops, {x \in DOMAIN ops : ValidOrder(ops[x])}) :
                        /\ Orders' = Orders \o o.written
                        /\ flushes' = Append(flushes, Flushed("Orders", ops, o))
                        /\ IF o.ok
                           THEN /\ bulk' = <<>>
                                /\ out' = out
                                     \o <<Printed("ordersProgress", k, Len(Orders'))>>
                                     \o (IF k % OrderProgressEvery = 0
                                         THEN <<Printed("ordersProgress", k, Len(Orders'))>>
                                         ELSE <<>>)
                                /\ k' = k + 1
                                /\ UNCHANGED <<pc, error>>
                           ELSE /\ pc' = pc /\ error' = "BulkWriteError"
                                /\ UNCHANGED <<bulk, out, k>>
                 ELSE /\ bulk' = ops /\ k' = k + 1
                      /\ UNCHANGED <<Orders, flushes, out, pc, error>>
  /\ UNCHANGED <<backend, cfg, i, j, ident, Customers, Products, OrderDetails,
                 sqlv, results, ri>>

\* the flush of the last, partial batch of Orders and "Data seeding completed."
OrdersTail ==
  /\ At("mongo", "orders") /\ ~OrderLoop
  /\ IF TailFlushNeeded(bulk)
     THEN \E o \in ExecOutcomes(bulk, {x \in DOMAIN bulk : ValidOrder(bulk[x])}) :
            /\ Orders' = Orders \o o.written
            /\ flushes' = Append(flushes, Flushed("Orders", bulk, o))
            /\ IF o.ok
               THEN /\ out' = out \o <<Printed("ordersDone", cfg.orderCount, Len(Orders')),
                                       Printed("completed", 0, 0)>>
                    /\ pc' = "query" /\ bulk' = <<>>
                    /\ UNCHANGED error
               ELSE /\ pc' = pc /\ error' = "BulkWriteError"
                    /\ UNCHANGED <<bulk, out>>
     ELSE /\ pc' = "query"
          /\ out' = Append(out, Printed("completed", 0, 0))
          /\ UNCHANGED <<Orders, flushes, bulk, error>>
  /\ UNCHANGED <<backend, cfg, i, j, k, rng, oid, ident, Customers, Products,
                 OrderDetails, sqlv, resolves, results, ri>>

\* ------------------------------------------------------------------ sql
\* CHECKSUM(NEWID()): any INT; state s of the stream stands for one of 16
\* representatives, the least INT among them
Checksum(s) == IF s = 0 THEN MinInt ELSE (s - 8) * 268435457

\* ABS(x), defined for every INT but the least one (error 8115)
Abs(x) == IF x < 0 THEN 0 - x ELSE x

\* DATEADD(DAY, -ABS(CHECKSUM(NEWID())) % 365, GETDATE()): age in days
SqlRandomAge(x) == Abs(x) % 365

\* CAST((RAND(CHECKSUM(NEWID())) * 100 + 1) AS DECIMAL(10,2)), in cents
SqlRandomPrice(x) == (x % 10000) + 100

\* DECLARE @v INT = (ABS(CHECKSUM(NEWID())) % @count) + 1: a failed statement
\* leaves @v as it was (NULL before its first assignment)
SqlPick(x, count, old) ==
  IF x = MinInt \/ count = 0 THEN old ELSE (Abs(x) % count) + 1

SqlPickError(x, count) ==
  IF x = MinInt THEN "ArithmeticOverflow"
  ELSE IF count = 0 THEN "DivideByZero" ELSE "none"

\* SELECT Price FROM dbo.Products WHERE ProductID = @randomProductID
SqlPriceOf(productId) ==
  IF \E x \in DOMAIN Products : Products[x].id = productId
  THEN Products[CHOOSE x \in DOMAIN Products : Products[x].id = productId].price
  ELSE NULL

\* a faulty variant of SqlOrderRejected: dbo.Orders without FK_Orders_Customers
SqlOrderRejectedNoFK(customerId) ==
  IF customerId = NULL THEN "NotNullViolation" ELSE "none"

\* NOT NULL and FOREIGN KEY constraints of dbo.Orders
SqlOrderRejected(customerId) ==
  IF customerId = NULL THEN "NotNullViolation"
  ELSE IF customerId \notin Ids(Customers) THEN "ForeignKeyViolation"
  ELSE "none"

\* NOT NULL, CHECK and FOREIGN KEY constraints of dbo.OrderDetails
SqlDetailRejected(orderId, productId, quantity, unitPrice) ==
  IF productId = NULL \/ quantity = NULL \/ unitPrice = NULL THEN "NotNullViolation"
  ELSE IF ~(quantity > 0 /\ unitPrice >= 0) THEN "CheckViolation"
  ELSE IF orderId \notin Ids(Orders) \/ productId \notin Ids(Products)
       THEN "ForeignKeyViolation"
  ELSE "none"

SqlStatement(kind, ok) == [kind |-> kind, size |-> 1, ok |-> ok]

SqlProgress(msg, n, every, persisted) ==
  IF n % every = 0 THEN <<Printed(msg, n, persisted)>> ELSE <<>>

\* 3a. one iteration of WHILE @i <= @customerCount
SqlInsertCustomer ==
  /\ At("sql", "customers") /\ i <= cfg.customerCount
  /\ LET x == Checksum(rng)
         row == [id |-> ident.Customers + 1, n |-> i,
                 email |-> <<"customer", i, "@example.com">>,
                 createdAge |-> SqlRandomAge(x)]
     IN  /\ rng' = RngNext(rng)
         /\ IF x = MinInt
            THEN /\ error' = "ArithmeticOverflow"
                 /\ flushes' = Append(flushes, SqlStatement("Customers", FALSE))
                 /\ UNCHANGED <<Customers, ident>>
            ELSE /\ Customers' = Append(Customers, row)
                 /\ ident' = [ident EXCEPT !.Customers = @ + 1]
                 /\ flushes' = Append(flushes, SqlStatement("Customers", TRUE))
                 /\ UNCHANGED error
         /\ i' = i + 1
         /\ out' = out \o SqlProgress("customersProgress", i + 1, CustomerProgressEvery,
                                      Len(Customers'))
  /\ UNCHANGED <<backend, cfg, pc, j, k, oid, Products, Orders, OrderDetails, bulk,
                 sqlv, resolves, results, ri>>

\* the end of loop 3a and the declarations of 3b
SqlCustomersDone ==
  /\ At("sql", "customers") /\ i > cfg.customerCount
  /\ pc' = "products"
  /\ \E n \in Counts(MaxProducts) : cfg' = [cfg EXCEPT !.productCount = n]
  /\ UNCHANGED <<backend, i, j, k, rng, oid, ident, Customers, Products, Orders,
                 OrderDetails, bulk, sqlv, out, flushes, resolves, error, results, ri>>

\* 3b. one iteration of WHILE @j <= @productCount
SqlInsertProduct ==
  /\ At("sql", "products") /\ j <= cfg.productCount
  /\ LET x == Checksum(RngNext(rng))
         row == [id |-> ident.Products + 1, n |-> j,
                 price |-> SqlRandomPrice(Checksum(rng)),
                 createdAge |-> SqlRandomAge(x)]
     IN  /\ rng' = RngAt(rng, 2)
         /\ IF x = MinInt
            THEN /\ error' = "ArithmeticOverflow"
                 /\ flushes' = Append(flushes, SqlStatement("Products", FALSE))
                 /\ UNCHANGED <<Products, ident>>
            ELSE /\ Products' = Append(Products, row)
                 /\ ident' = [ident EXCEPT !.Products = @ + 1]
                 /\ flushes' = Append(flushes, SqlStatement("Products", TRUE))
                 /\ UNCHANGED error
         /\ j' = j + 1
         /\ out' = out \o SqlProgress("productsProgress", j + 1, ProductProgressEvery,
                                      Len(Products'))
  /\ UNCHANGED <<backend, cfg, pc, i, k, oid, Customers, Orders, OrderDetails, bulk,
                 sqlv, resolves, results, ri>>

\* the end of loop 3b and the declarations of 3c
SqlProductsDone ==
  /\ At("sql", "products") /\ j > cfg.productCount
  /\ pc' = "orders"
  /\ \E n \in Counts(MaxOrders) : cfg' = [cfg EXCEPT !.orderCount = n]
  /\ UNCHANGED <<backend, i, j, k, rng, oid, ident, Customers, Products, Orders,
                 OrderDetails, bulk, sqlv, out, flushes, resolves, error, results, ri>>

\* 3c. one iteration of WHILE @orderCounter <= @orderCount
SqlInsertOrder ==
  /\ At("sql", "orders") /\ k <= cfg.orderCount
  /\ LET x == Checksum(rng)
         y == Checksum(RngNext(rng))
         customerId == SqlPick(x, cfg.customerCount, sqlv.randomCustomerID)
         picked == SqlPickError(x, cfg.customerCount)
         rejected == SqlOrderRejected(customerId)
         row == [id |-> ident.Orders + 1, customerId |-> customerId,
                 orderAge |-> SqlRandomAge(y)]
     IN  /\ rng' = RngAt(rng, 2)
         /\ sqlv' = [sqlv EXCEPT !.randomCustomerID = customerId]
         /\ resolves' = Append(resolves, Resolved("Customer", Customers, customerId, picked))
         /\ flushes' = Append(flushes,
                              SqlStatement("Orders", y # MinInt /\ rejected = "none"))
         /\ IF y = MinInt
            THEN /\ error' = "ArithmeticOverflow"
                 /\ UNCHANGED <<Orders, ident>>
            ELSE IF rejected # "none"
            THEN \* a rejected row has taken its IDENTITY value
                 /\ error' = rejected
                 /\ ident' = [ident EXCEPT !.Orders = @ + 1]
                 /\ UNCHANGED Orders
            ELSE /\ Orders' = Append(Orders, row)
                 /\ ident' = [ident EXCEPT !.Orders = @ + 1]
                 /\ error' = IF picked # "none" THEN picked ELSE error
         /\ k' = k + 1
         /\ out' = out \o SqlProgress("ordersProgress", k + 1, OrderProgressEvery,
                                      Len(Orders'))
  /\ UNCHANGED <<backend, cfg, pc, i, j, oid, Customers, Products, OrderDetails, bulk,
                 results, ri>>

\* the end of loop 3c and the declarations of 3d: @maxOrderID = MAX(OrderID)
SqlOrdersDone ==
  /\ At("sql", "orders") /\ k > cfg.orderCount
  /\ pc' = "details"
  /\ sqlv' = [sqlv EXCEPT !.currentOrder = 1,
                          !.maxOrderID = IF Orders = <<>> THEN NULL
                                         ELSE Orders[Len(Orders)].id]
  /\ UNCHANGED <<backend, cfg, i, j, k, rng, oid, ident, Customers, Products, Orders,
                 OrderDetails, bulk, out, flushes, resolves, error, results, ri>>

\* 3d. the head of one iteration of WHILE @currentOrder <= @maxOrderID
SqlDetailsBegin ==
  /\ At("sql", "details")
  /\ sqlv.maxOrderID # NULL /\ sqlv.currentOrder <= sqlv.maxOrderID
  /\ LET x == Checksum(rng)
     IN  /\ rng' = RngNext(rng)
         /\ sqlv' = [sqlv EXCEPT !.detailCount = SqlPick(x, 5, @), !.d = 1]
         /\ error' = IF x = MinInt THEN "ArithmeticOverflow" ELSE error
  /\ pc' = "line"
  /\ UNCHANGED <<backend, cfg, i, j, k, oid, ident, Customers, Products, Orders,
                 OrderDetails, bulk, out, flushes, resolves, results, ri>>

\* one iteration of WHILE @d <= @detailCount
SqlInsertDetail ==
  /\ At("sql", "line")
  /\ sqlv.detailCount # NULL /\ sqlv.d <= sqlv.detailCount
  /\ LET x == Checksum(rng)
         y == Checksum(RngNext(rng))
         productId == SqlPick(x, cfg.productCount, sqlv.randomProductID)
         picked == SqlPickError(x, cfg.productCount)
         unitPrice == SqlPriceOf(productId)
         quantity == SqlPick(y, 10, sqlv.quantity)
         rejected == SqlDetailRejected(sqlv.currentOrder, productId, quantity, unitPrice)
         row == [id |-> ident.OrderDetails + 1, orderId |-> sqlv.currentOrder,
                 productId |-> productId, quantity |-> quantity, unitPrice |-> unitPrice]
     IN  /\ rng' = RngAt(rng, 2)
         /\ sqlv' = [sqlv EXCEPT !.randomProductID = productId, !.unitPrice = unitPrice,
                                 !.quantity = quantity, !.d = @ + 1]
         /\ resolves' = Append(resolves, Resolved("Product", Products, productId, picked))
         /\ flushes' = Append(flushes, SqlStatement("OrderDetails", rejected = "none"))
         /\ ident' = [ident EXCEPT !.OrderDetails = @ + 1]
         /\ IF rejected # "none"
            THEN /\ error' = rejected
                 /\ UNCHANGED OrderDetails
            ELSE /\ OrderDetails' = Append(OrderDetails, row)
                 /\ error' = IF picked # "none" THEN picked
                             ELSE IF y = MinInt THEN "ArithmeticOverflow" ELSE error
  /\ UNCHANGED <<backend, cfg, pc, i, j, k, oid, Customers, Products, Orders, bulk,
                 out, results, ri>>

\* the tail of the iteration: SET @currentOrder = @currentOrder + 1 and the PRINT
SqlDetailsEnd ==
  /\ At("sql", "line")
  /\ ~(sqlv.detailCount # NULL /\ sqlv.d <= sqlv.detailCount)
  /\ pc' = "details"
  /\ sqlv' = [sqlv EXCEPT !.currentOrder = @ + 1]
  /\ out' = out \o SqlProgress("detailsProgress", sqlv.currentOrder + 1,
                               OrderProgressEvery, Len(OrderDetails))
  /\ UNCHANGED <<backend, cfg, i, j, k, rng, oid, ident, Customers, Products, Orders,
                 OrderDetails, bulk, flushes, resolves, error, results, ri>>

\* PRINT 'Seeding Completed.'
SqlSeedingCompleted ==
  /\ At("sql", "details")
  /\ ~(sqlv.maxOrderID # NULL /\ sqlv.currentOrder <= sqlv.maxOrderID)
  /\ pc' = "query"
  /\ out' = Append(out, Printed("completed", 0, 0))
  /\ UNCHANGED <<backend, cfg, i, j, k, rng, oid, ident, Customers, Products, Orders,
                 OrderDetails, bulk, sqlv, flushes, resolves, error, results, ri>>

\* the session ends under a statement of the seeding batch (the server or the
\* connection is lost): sqlcmd stops
SqlConnectionLost ==
  /\ backend = "sql" /\ ~Halted
  /\ \/ pc = "customers" /\ i <= cfg.customerCount
        /\ flushes' = Append(flushes, SqlStatement("Customers", FALSE))
     \/ pc = "products" /\ j <= cfg.productCount
        /\ flushes' = Append(flushes, SqlStatement("Products", FALSE))
     \/ pc = "orders" /\ k <= cfg.orderCount
        /\ flushes' = Append(flushes, SqlStatement("Orders", FALSE))
     \/ pc = "line" /\ sqlv.detailCount # NULL /\ sqlv.d <= sqlv.detailCount
        /\ flushes' = Append(flushes, SqlStatement("OrderDetails", FALSE))
  /\ pc' = pc /\ error' = "ConnectionLost"
  /\ UNCHANGED <<backend, cfg, i, j, k, rng, oid, ident, Customers, Products, Orders,
                 OrderDetails, bulk, sqlv, out, resolves, results, ri>>

\* ---------------------------------------------------------- the query
\* /@example\.com$/ and LIKE '%@example.com'
EmailMatches(email) == email[Len(email)] = "@example.com"

\* orderDate >= now - 180 days
InWindow(age) == age <= WindowDays

RECURSIVE SumSpent(_)
SumSpent(rows) ==
  IF rows = {} THEN 0
  ELSE LET r == CHOOSE r \in rows : TRUE
       IN  r.quantity * r.unitPrice + SumSpent(rows \ {r})

\* { $sort: { TotalSpent: -1 } } and ORDER BY TotalSpent DESC: rows of equal
\* TotalSpent come in an order the store chooses
RECURSIVE SortDesc(_)
SortDesc(rows) ==
  IF rows = {} THEN <<>>
  ELSE LET m == CHOOSE r \in rows : \A q \in rows : q.TotalSpent <= r.TotalSpent
       IN  <<m>> \o SortDesc(rows \ {m})

\* { $limit: 100 }
Limit(rows, n) == SubSeq(rows, 1, IF Len(rows) < n THEN Len(rows) ELSE n)

\* $lookup Customers, $unwind, $match, $unwind orderDetails, $lookup Products,
\* $unwind: one document per order line whose customer and product exist
MongoUnwound ==
  {[order |-> Orders[o].id, line |-> d, customer |-> Customers[c],
    quantity |-> Orders[o].orderDetails[d].quantity,
    unitPrice |-> Orders[o].orderDetails[d].unitPrice] :
     <<o, d, c, p>> \in
       {t \in (DOMAIN Orders) \X (1 .. 5) \X (DOMAIN Customers) \X (DOMAIN Products) :
          /\ t[2] \in DOMAIN Orders[t[1]].orderDetails
          /\ Customers[t[3]].id = Orders[t[1]].customerId
          /\ InWindow(Orders[t[1]].orderAge)
          /\ EmailMatches(Customers[t[3]].email)
          /\ Products[t[4]].id = Orders[t[1]].orderDetails[t[2]].productId}}

\* $group by customer._id with $addToSet of the order _id, $project with $size
MongoGrouped ==
  {[CustomerID |-> c.id, n |-> c.n, email |-> c.email,
    OrdersCount |-> Cardinality({r.order : r \in {u \in MongoUnwound : u.customer = c}}),
    TotalSpent |-> SumSpent({u \in MongoUnwound : u.customer = c})] :
     c \in {u.customer : u \in MongoUnwound}}

pipeline == Limit(SortDesc(MongoGrouped), TopN)

\* FROM Customers c JOIN Orders o JOIN OrderDetails od JOIN Products p WHERE ...
SqlJoined ==
  {[order |-> Orders[o].id, line |-> OrderDetails[d].id, customer |-> Customers[c],
    quantity |-> OrderDetails[d].quantity,
    unitPrice |-> OrderDetails[d].unitPrice] :
     <<c, o, d, p>> \in
       {t \in (DOMAIN Customers) \X (DOMAIN Orders) \X (DOMAIN OrderDetails)
                \X (DOMAIN Products) :
          /\ Customers[t[1]].id = Orders[t[2]].customerId
          /\ Orders[t[2]].id = OrderDetails[t[3]].orderId
          /\ OrderDetails[t[3]].productId = Products[t[4]].id
          /\ InWindow(Orders[t[2]].orderAge)
          /\ EmailMatches(Customers[t[1]].email)}}

\* COUNT(o.OrderID): the joined rows of the group whose OrderID is not NULL
SqlCountOrderID(rows) == Cardinality(rows)

\* GROUP BY c.CustomerID, ... with COUNT(o.OrderID) and SUM(od.Quantity * od.UnitPrice)
SqlGrouped ==
  {[CustomerID |-> c.id, n |-> c.n, email |-> c.email,
    OrdersCount |-> SqlCountOrderID({u \in SqlJoined : u.customer = c}),
    TotalSpent |-> SumSpent({u \in SqlJoined : u.customer = c})] :
     c \in {u.customer : u \in SqlJoined}}

SqlSelect == SortDesc(SqlGrouped)

\* Step 4 of init.js: db.Orders.aggregate(pipeline).toArray()
RunQuery ==
  /\ At("mongo", "query")
  /\ results' = pipeline
  /\ pc' = "done"
  /\ UNCHANGED <<backend, cfg, i, j, k, rng, oid, ident, Customers, Products, Orders,
                 OrderDetails, bulk, sqlv, out, flushes, resolves, error, ri>>

\* Step 4 of the T-SQL script: the batch after GO
SqlRunQuery ==
  /\ At("sql", "query")
  /\ results' = SqlSelect
  /\ pc' = "done"
  /\ UNCHANGED <<backend, cfg, i, j, k, rng, oid, ident, Customers, Products, Orders,
                 OrderDetails, bulk, sqlv, out, flushes, resolves, error, ri>>

\* ------------------------------------------------- getRandomInt alone
\* a call of getRandomInt(min, max) with arguments of either order
RandomIntInit ==
  /\ backend = "mongo" /\ pc = "call"
  /\ cfg = [bulkHasLength |-> FALSE, customerCount |-> 0, customerBatchSize |-> 1,
            productCount |-> 0, productBatchSize |-> 1, orderCount |-> 0,
            orderBatchSize |-> 1]
  /\ i = 1 /\ j = 1 /\ k = 1
  /\ rng \in Seeds
  /\ oid = 0
  /\ ident = [Customers |-> 0, Products |-> 0, Orders |-> 0, OrderDetails |-> 0]
  /\ Customers = <<>> /\ Products = <<>> /\ Orders = <<>> /\ OrderDetails = <<>>
  /\ bulk = <<>>
  /\ sqlv = NoSqlVars
  /\ out = <<>> /\ flushes = <<>> /\ resolves = <<>>
  /\ error = "none"
  /\ results = <<>>
  /\ ri \in [min : 0 .. MaxArg, max : 0 .. MaxArg, state : {"called"}, value : {0},
             error : {"none"}]

\* the function has no throw statement: it returns a number for any arguments
CallRandomInt ==
  /\ pc = "call" /\ ri.state = "called"
  /\ ri' = [ri EXCEPT !.state = "returned",
                      !.value = getRandomInt(ri.min, ri.max, rng)]
  /\ rng' = RngNext(rng)
  /\ UNCHANGED <<backend, cfg, pc, i, j, k, oid, ident, Customers, Products, Orders,
                 OrderDetails, bulk, sqlv, out, flushes, resolves, error, results>>

SpecRandomInt == RandomIntInit /\ [][CallRandomInt]_vars

Next ==
  \/ SeedCustomer
  \/ CustomersTail
  \/ SeedProduct
  \/ ProductsTail
  \/ SeedOrder
  \/ OrdersTail
  \/ SqlInsertCustomer
  \/ SqlCustomersDone
  \/ SqlInsertProduct
  \/ SqlProductsDone
  \/ SqlInsertOrder
  \/ SqlOrdersDone
  \/ SqlDetailsBegin
  \/ SqlInsertDetail
  \/ SqlDetailsEnd
  \/ SqlSeedingCompleted
  \/ SqlConnectionLost
  \/ RunQuery
  \/ SqlRunQuery

Spec == Init /\ [][Next]_vars

\* ============================================================ properties
SeqSet(q) == {q[x] : x \in DOMAIN q}

\* the Orders built so far by the mongo script: written, or waiting in ordersBulk
MongoBuiltOrders ==
  SeqSet(Orders) \cup (IF pc = "orders" THEN SeqSet(bulk) ELSE {})

PriceById(id) == Products[CHOOSE x \in DOMAIN Products : Products[x].id = id].price

\* the phases in the order the scripts run them
PhaseRank(p) ==
  CASE p = "customers" -> 1 [] p = "products" -> 2 [] p = "orders" -> 3
    [] p \in {"details", "line"} -> 4 [] p = "query" -> 5 [] OTHER -> 6

KindRank(kind) ==
  CASE kind = "Customers" -> 1 [] kind = "Products" -> 2 [] kind = "Orders" -> 3
    [] OTHER -> 4

BatchSizeOf(kind) ==
  CASE kind = "Customers" -> cfg.customerBatchSize
    [] kind = "Products" -> cfg.productBatchSize
    [] kind = "Orders" -> cfg.orderBatchSize
    [] OTHER -> 1

CountOf(kind) ==
  CASE kind = "Customers" -> cfg.customerCount
    [] kind = "Products" -> cfg.productCount
    [] OTHER -> cfg.orderCount

\* C1: on either backend every built Order references a persisted Customer, and
\* every order line a persisted Product (and, in the relational store, a
\* persisted Order); in the document store the Customer and the Product were
\* created before the Order that references them.
C1_ReferencesResolve ==
  IF backend = "mongo"
  THEN \A o \in MongoBuiltOrders :
         /\ \E c \in SeqSet(Customers) : c.id = o.customerId /\ c.id < o.id
         /\ \A d \in DOMAIN o.orderDetails :
              \E p \in SeqSet(Products) :
                p.id = o.orderDetails[d].productId /\ p.id < o.id
  ELSE /\ \A o \in SeqSet(Orders) : o.customerId \in Ids(Customers)
       /\ \A l \in SeqSet(OrderDetails) :
            l.productId \in Ids(Products) /\ l.orderId \in Ids(Orders)

C1_Witness ==
  /\ backend = "sql" /\ pc = "done"
  /\ Len(Customers) >= 2 /\ Len(Orders) >= 2 /\ Len(OrderDetails) >= 2
  /\ \E a, b \in SeqSet(Orders) : a.customerId # b.customerId

C2_PricesMatch ==
  IF backend = "mongo"
  THEN \A o \in MongoBuiltOrders : \A d \in DOMAIN o.orderDetails :
         /\ o.orderDetails[d].productId \in Ids(Products)
         /\ o.orderDetails[d].unitPrice = PriceById(o.orderDetails[d].productId)
  ELSE \A l \in SeqSet(OrderDetails) :
         l.productId \in Ids(Products) /\ l.unitPrice = PriceById(l.productId)

C2_Stable ==
  /\ Len(Orders') >= Len(Orders) /\ \A x \in DOMAIN Orders : Orders'[x] = Orders[x]
  /\ Len(OrderDetails') >= Len(OrderDetails)
  /\ \A x \in DOMAIN OrderDetails : OrderDetails'[x] = OrderDetails[x]
  /\ Len(Products') >= Len(Products) /\ \A x \in DOMAIN Products : Products'[x] = Products[x]

\* C2: every order line's unitPrice is the price of the Product its productId
\* names, and no step changes a stored line or a stored Product.
C2_SnapshotPrice == [](C2_PricesMatch) /\ [][C2_Stable]_vars

C2_Witness ==
  /\ backend = "mongo" /\ pc = "done" /\ Len(Products) >= 2
  /\ \E o \in SeqSet(Orders) : \E a, b \in DOMAIN o.orderDetails :
       o.orderDetails[a].unitPrice # o.orderDetails[b].unitPrice

\* C3: every batch submitted holds between 1 and batchSize records, and once a
\* seeding loop (Customers, Products, Orders) and its tail flush are over the
\* sizes of its batches add up to its target count (no batch when it is 0).
C3_BatchTotals ==
  /\ \A x \in DOMAIN flushes :
       flushes[x].size >= 1 /\ flushes[x].size <= BatchSizeOf(flushes[x].kind)
  /\ \A kind \in {"Customers", "Products", "Orders"} :
       PhaseRank(pc) > KindRank(kind) =>
         /\ SumSizes(flushes, kind) = CountOf(kind)
         /\ CountOf(kind) = 0 => \A x \in DOMAIN flushes : flushes[x].kind # kind

\* C4: a Customer or a Product has been sampled only after both loops have
\* ended and all customerCount Customers and productCount Products have been
\* submitted.
C4_Barrier ==
  (\E x \in DOMAIN resolves : resolves[x].error = "none") =>
    /\ i > cfg.customerCount /\ j > cfg.productCount
    /\ SumSizes(flushes, "Customers") = cfg.customerCount
    /\ SumSizes(flushes, "Products") = cfg.productCount
    /\ PhaseRank(pc) >= 3

\* the dataset the query is put to is referentially valid and every Order has
\* order lines
DatasetValid ==
  /\ C1_ReferencesResolve
  /\ backend = "sql" =>
       \A o \in SeqSet(Orders) : \E l \in SeqSet(OrderDetails) : l.orderId = o.id

\* the reference operation of the claim, on either layout
RefLines ==
  IF backend = "mongo"
  THEN {[order |-> o.id, customerId |-> o.customerId, age |-> o.orderAge, line |-> d,
         quantity |-> o.orderDetails[d].quantity,
         unitPrice |-> o.orderDetails[d].unitPrice] :
          <<o, d>> \in {t \in SeqSet(Orders) \X (1 .. 5) : t[2] \in DOMAIN t[1].orderDetails}}
  ELSE {[order |-> o.id, customerId |-> o.customerId, age |-> o.orderAge, line |-> l.id,
         quantity |-> l.quantity, unitPrice |-> l.unitPrice] :
          <<o, l>> \in {t \in SeqSet(Orders) \X SeqSet(OrderDetails) : t[2].orderId = t[1].id}}

RefRows ==
  LET lines(c) == {l \in RefLines : l.customerId = c.id /\ l.age <= WindowDays}
  IN  {[CustomerID |-> c.id, n |-> c.n, email |-> c.email,
        OrdersCount |-> Cardinality({l.order : l \in lines(c)}),
        TotalSpent |-> SumSpent(lines(c))] :
         c \in {c \in SeqSet(Customers) :
                  c.email[Len(c.email)] = "@example.com" /\ lines(c) # {}}}

\* C5: the rows the query returns are the reference rows (distinct order
\* count, sum of quantity * unitPrice), in non-increasing order of TotalSpent,
\* at most TopN of them.
C5_QueryMatchesReference ==
  (pc = "done" /\ DatasetValid) =>
    /\ Len(results) <= TopN
    /\ \A x \in 1 .. Len(results) - 1 : results[x].TotalSpent >= results[x + 1].TotalSpent
    /\ Cardinality(RefRows) <= TopN => SeqSet(results) = RefRows

\* C6: once a persistence call has failed the run is halted and never reports
\* completion.
C6_FailureHalts ==
  (\E x \in DOMAIN flushes : ~flushes[x].ok) =>
    /\ Halted
    /\ \A x \in DOMAIN out : out[x].msg # "completed"

ProgressComplete(msg, coll, every) ==
  \A n \in 1 .. Len(coll) :
    n % every = 0 => \E x \in DOMAIN out : out[x].msg = msg /\ out[x].n = n

\* C7: in a run without any error, a progress notification reports the number
\* persisted at that moment, and one has been emitted for every multiple of
\* the interval that the number of persisted Customers (Products) has reached.
C7_ProgressReports ==
  error = "none" =>
    /\ \A x \in DOMAIN out :
         out[x].msg \in {"customersProgress", "productsProgress"} =>
           out[x].n = out[x].persisted
    /\ ProgressComplete("customersProgress", Customers, CustomerProgressEvery)
    /\ ProgressComplete("productsProgress", Products, ProductProgressEvery)

\* C8: with Customers and Products to sample from, every Order whose lines
\* have been generated has 1 to 5 of them, each of quantity 1 to 10.
C8_LineRanges ==
  (cfg.customerCount >= 1 /\ cfg.productCount >= 1) =>
    IF backend = "mongo"
    THEN \A o \in MongoBuiltOrders :
           /\ Len(o.orderDetails) \in 1 .. 5
           /\ \A d \in DOMAIN o.orderDetails : o.orderDetails[d].quantity \in 1 .. 10
    ELSE /\ \A l \in SeqSet(OrderDetails) : l.quantity \in 1 .. 10
         /\ \A o \in SeqSet(Orders) :
              (PhaseRank(pc) >= 4 /\ o.id < sqlv.currentOrder) =>
                Cardinality({l \in SeqSet(OrderDetails) : l.orderId = o.id}) \in 1 .. 5

PersistedIds(kind) == IF kind = "Customer" THEN Ids(Customers) ELSE Ids(Products)

\* C9: a resolution against an empty population fails with EmptyPopulation and
\* yields no identity; one against a non-empty population succeeds with the
\* identity of a persisted entity of that kind.
C9_Resolver ==
  \A x \in DOMAIN resolves :
    /\ resolves[x].population = 0 =>
         resolves[x].error = "EmptyPopulation" /\ resolves[x].id = NULL
    /\ resolves[x].population > 0 =>
         resolves[x].error = "none" /\ resolves[x].id \in PersistedIds(resolves[x].kind)

\* C10: getRandomInt(min, max) returns min when min = max and fails with
\* InvalidRange when min > max.
C10_RandomInt ==
  ri.state = "returned" =>
    /\ ri.min = ri.max => ri.value = ri.min /\ ri.error = "none"
    /\ ri.min > ri.max => ri.error = "InvalidRange"
====
